---- MODULE Spec2Model ----
(***************************************************************************)
(* A model of the lazerwfm workflow engine: WorkflowEngine (the dispatch   *)
(* loop _run_engine, start_workflow, stop_workflow, stop_all_workflows),   *)
(* MemoryWorkflowStorage (warm / cold tiers), MemoryTaskQueue (FIFO) and   *)
(* the Workflow instance fields (status, _result, _error,                  *)
(* current_step_name).                                                     *)
(*                                                                         *)
(* The engine is one asyncio task.  It gives up control only at an await:  *)
(* the 0.1 s sleep on an empty queue, the wait_for around a step body and  *)
(* the wait_for around a WAIT / SCHEDULE sleep.  The callers' coroutines   *)
(* (start_workflow, stop_workflow, stop_all_workflows) contain no await    *)
(* that suspends, so each is one atomic action that can run only while the *)
(* loop is suspended.                                                      *)
(***************************************************************************)
EXTENDS Integers, Sequences, FiniteSets, TLC

\* ---------------------------------------------------------------- bounds
MaxWorkflows == 2
\* How many dispatch-loop tasks the model has room for.
MaxLoops == 2
\* How many steps of one workflow the loop may invoke.
MaxDispatches == 3
\* How far the timeout arguments given to the transition constructors
\* range below zero and above MAX_STEP_TIMEOUT.
MaxOver == 2
\* How many tasks the owner of an injected task queue pushes on its own.
MaxExternalPushes == 1

\* ------------------------------------------------------------- constants
DEFAULT_STEP_TIMEOUT == 120
MAX_STEP_TIMEOUT == 600
\* The timeout CustomTimeoutWorkflow gives its NextStep.
CustomTimeout == 10

\* Workflow ids: uuid4 strings in the code, fresh at every construction;
\* here the n-th workflow constructed has id n.
Ids == 1..MaxWorkflows
NoId == 0
\* An id no workflow of the storage has.
GhostId == MaxWorkflows + 1

\* The _run_engine tasks: the n-th one created is loop n.
Loops == 1..MaxLoops

\* The step methods every modelled workflow class defines, and the names a
\* transition's next_step callable may carry (one of them is not a method
\* of the workflow).
Methods == {"start", "step_b"}
StepNames == Methods \cup {"not_a_method"}
\* **params of a call or of a transition: the set of the keyword names
\* given (the values are passed along untouched and are left out).
ParamNames == {"account_id", "note"}
Params == SUBSET ParamNames
StepParams == {{"note"}}
NoParams == {}
Values == {"v1", "v2"}
Exceptions == {"e1", "e2"}
\* How long a step body runs, in seconds: longer than a transition's
\* custom timeout and shorter than DEFAULT_STEP_TIMEOUT, or longer than
\* DEFAULT_STEP_TIMEOUT.
Durations == {(CustomTimeout + DEFAULT_STEP_TIMEOUT) \div 2,
              DEFAULT_STEP_TIMEOUT + CustomTimeout}

\* WorkflowStatus
PENDING == "pending"
RUNNING == "running"
COMPLETED == "completed"
FAILED == "failed"
WAITING == "waiting"
TIMEOUT == "timeout"
WorkflowStatus == {PENDING, RUNNING, COMPLETED, FAILED, WAITING, TIMEOUT}

\* The statuses the engine's move-to-cold check tests for.
EngineTerminal == {COMPLETED, FAILED, TIMEOUT}

\* MemoryWorkflowStorage._terminal_states
terminal_states == {COMPLETED, FAILED}

\* TransitionType with the END member the dispatch loop's match names.
TransitionTypeWithEnd == {"BASE", "NEXT", "WAIT", "SCHEDULE", "END"}

\* The members of the TransitionType enum.
TransitionType == {"BASE", "NEXT", "WAIT", "SCHEDULE"}

\* ---------------------------------------------------------------- errors
NoError == [kind |-> "None", arg |-> "None"]
WorkflowCancelled == [kind |-> "WorkflowError", arg |-> "Workflow cancelled"]
InvalidTransition == [kind |-> "WorkflowError", arg |-> "Invalid step transition"]
StepTimeoutError(step) == [kind |-> "StepTimeoutError", arg |-> step]
SleepTimeoutError == [kind |-> "StepTimeoutError", arg |-> "Wait timeout"]
AttributeError(name) == [kind |-> "AttributeError", arg |-> name]
StepException(e) == [kind |-> "Exception", arg |-> e]
\* The ValueErrors of start_workflow_by_name.
UnknownWorkflow == [kind |-> "ValueError", arg |-> "not found"]
MissingParameter(p) == [kind |-> "ValueError", arg |-> p]

\* ------------------------------------------------------------ transitions
\* The timeout argument of a transition constructor: None (not given) or
\* a number of seconds (whole seconds here).
NoTimeout == [given |-> FALSE, value |-> 0]
TimeoutOf(n) == [given |-> TRUE, value |-> n]
TimeoutArgs ==
    {NoTimeout} \cup {TimeoutOf(n) : n \in (0 - MaxOver)..(MAX_STEP_TIMEOUT + MaxOver)}

\* StepTransition and its subclasses; each subclass constructor hands its
\* timeout argument to StepTransition.__init__ before it stores its own
\* fields.
TransitionClasses == {"StepTransition", "NextStep", "WaitAndNextStep", "Schedule"}

\* The ValueError of StepTransition.__init__.
TimeoutTooLarge == [kind |-> "ValueError", arg |-> "Step timeout cannot exceed"]

\* __init__ rejecting MAX_STEP_TIMEOUT itself (>= for >).
StepTransitionInitAtLeast(timeout) ==
    IF timeout.given /\ timeout.value >= MAX_STEP_TIMEOUT
    THEN [raised |-> TimeoutTooLarge, timeout |-> 0]
    ELSE [raised |-> NoError,
          timeout |-> IF timeout.given /\ timeout.value # 0
                      THEN timeout.value ELSE DEFAULT_STEP_TIMEOUT]

\* StepTransition.__init__(timeout): raise when timeout is given and
\* above MAX_STEP_TIMEOUT; else self.timeout = timeout or
\* DEFAULT_STEP_TIMEOUT (None and 0 are falsy).  timeout is 0 in the
\* record when no object was made.
StepTransitionInit(timeout) ==
    IF timeout.given /\ timeout.value > MAX_STEP_TIMEOUT
    THEN [raised |-> TimeoutTooLarge, timeout |-> 0]
    ELSE [raised |-> NoError,
          timeout |-> IF timeout.given /\ timeout.value # 0
                      THEN timeout.value ELSE DEFAULT_STEP_TIMEOUT]

\* A constructor call: the class, the timeout argument, what the call
\* raised and the timeout attribute of the object made.
Constructed(cls, arg, r) ==
    [class |-> cls, arg |-> arg, raised |-> r.raised, timeout |-> r.timeout]
NothingConstructed ==
    Constructed("none", NoTimeout, [raised |-> NoError, timeout |-> 0])

\* ---------------------------------------------------------------- registry
\* The names callers use; WorkflowRegistry._workflows holds one of them,
\* "w", whose metadata declares account_id required (with a default) and
\* note optional.
WorkflowNames == {"w", "unregistered"}
Registered == {"w"}
parameters ==
    [p \in ParamNames |->
        IF p = "account_id"
        THEN [required |-> TRUE, has_default |-> TRUE]
        ELSE [required |-> FALSE, has_default |-> FALSE]]

\* get_workflow_class returning an entry for every name.
get_workflow_class_any(name) == TRUE

\* WorkflowRegistry.get_workflow_class: the entry, or None.
get_workflow_class(name) == name \in Registered

\* ------------------------------------------------- what a step body does
\* kind   : the body returns, raises an Exception, raises
\*          asyncio.CancelledError (a BaseException), or is cut off by
\*          the deadline of the wait_for around it
\* type   : the transition_type of a returned StepTransition; "END" is a
\*          StepTransition subclass tagged END (types.py defines none);
\*          "NOT_A_TRANSITION" is any other returned value
\* sleep  : for WAIT / SCHEDULE: "none" (schedule_time not after now),
\*          "short" (the sleep ends within the transition's timeout) or
\*          "long" (it does not)
Outcome(k, t, s, p, r, sl, e) ==
    [kind |-> k, type |-> t, next_step |-> s, params |-> p, result |-> r,
     sleep |-> sl, exc |-> e]
NoOutcome == Outcome("none", "none", "none", NoParams, "None", "none", "none")
NextStep(s, p) == Outcome("return", "NEXT", s, p, "None", "none", "none")
WaitAndNextStep(s, p, sl) == Outcome("return", "WAIT", s, p, "None", sl, "none")
Schedule(s, p, sl) == Outcome("return", "SCHEDULE", s, p, "None", sl, "none")
EndStep(v) == Outcome("return", "END", "none", NoParams, v, "none", "none")
BaseTransition == Outcome("return", "BASE", "none", NoParams, "None", "none", "none")
NotATransition == Outcome("return", "NOT_A_TRANSITION", "none", NoParams, "None", "none", "none")
Raises(e) == Outcome("raise", "none", "none", NoParams, "None", "none", e)
Cancels == Outcome("cancel", "none", "none", NoParams, "None", "none", "none")
TimesOut == Outcome("timeout", "none", "none", NoParams, "None", "none", "none")

Outcomes ==
    {NextStep(s, p) : s \in StepNames, p \in StepParams}
    \cup {WaitAndNextStep(s, p, sl) : s \in Methods, p \in StepParams, sl \in {"short", "long"}}
    \cup {Schedule(s, p, sl) : s \in Methods, p \in StepParams, sl \in {"none", "short", "long"}}
    \cup {EndStep(v) : v \in Values}
    \cup {BaseTransition, NotATransition, Cancels}
    \cup {Raises(e) : e \in Exceptions}

Task(id, step, params) == [id |-> id, step |-> step, params |-> params]
NoTask == Task(NoId, "none", NoParams)

\* The tasks the owner of a task queue handed to WorkflowEngine(task_queue
\* = q) pushes with q.push: one of a workflow the storage does not hold,
\* and one per workflow naming a step the workflow does not have.
ExternalTasks ==
    {Task(GhostId, "start", NoParams)}
    \cup {Task(id, "not_a_method", NoParams) : id \in Ids}

\* ----------------------------------------------------------------- state
VARIABLES
    status,             \* Workflow.status, per id
    result,             \* Workflow._result
    error,              \* Workflow._error
    current_step_name,  \* Workflow.current_step_name
    created,            \* how many workflows have been constructed
    warm_storage,       \* keys of MemoryWorkflowStorage._warm_storage
    cold_storage,       \* keys of MemoryWorkflowStorage._cold_storage
    queue,              \* MemoryTaskQueue._queue
    running,            \* WorkflowEngine._running
    engine_tasks,       \* how many _run_engine tasks have been created
    pc,                 \* where each dispatch loop is
    cur,                \* the task each loop is dispatching
    res,                \* the transition each loop is sleeping on
    dispatch_status,    \* history: the status the workflow had when the
                        \* step in flight was invoked, per loop
    last,               \* history: the last operation and what it was given
    raised,             \* history: what the last call raised to its caller
    call,               \* history: the name and params the last call was given
    pushed,             \* history: every task pushed, in push order
    popped,             \* history: every task popped, in pop order
    invoked,            \* history: the step names invoked, per workflow
    returned,           \* history: the successors its steps returned
    constructed         \* the last transition constructor call

vars == <<status, result, error, current_step_name, created, warm_storage,
          cold_storage, queue, running, engine_tasks, pc, cur, res,
          dispatch_status, last, raised, call, pushed, popped, invoked,
          returned, constructed>>

wfvars == <<status, result, error, current_step_name>>

\* op: the operation; id: its workflow; out: what the step body or sleep
\* did; pre: the workflow's status before the operation (for
\* stop_all_workflows: RUNNING when an active workflow was Running);
\* at_dispatch: its
\* status when the step that just ended was invoked; duration: how long
\* the step body that just ended had run.
Last(op, id, out, pre, at_dispatch, duration) ==
    [op |-> op, id |-> id, out |-> out, pre |-> pre, at_dispatch |-> at_dispatch,
     duration |-> duration]

\* The workflow name (none when a class is given) and the **params of a
\* start_workflow / start_workflow_by_name call.
CallOf(name, params) == [name |-> name, params |-> params]
NoCall == CallOf("none", NoParams)

Init ==
    /\ status = [i \in Ids |-> PENDING]
    /\ result = [i \in Ids |-> "None"]
    /\ error = [i \in Ids |-> NoError]
    /\ current_step_name = [i \in Ids |-> "None"]
    /\ created = 0
    /\ warm_storage = {}
    /\ cold_storage = {}
    /\ queue = <<>>
    /\ running = FALSE
    /\ engine_tasks = 0
    /\ pc = [l \in Loops |-> "idle"]
    /\ cur = [l \in Loops |-> NoTask]
    /\ res = [l \in Loops |-> NoOutcome]
    /\ dispatch_status = [l \in Loops |-> "none"]
    /\ last = Last("init", NoId, NoOutcome, "none", "none", 0)
    /\ raised = NoError
    /\ call = NoCall
    /\ pushed = <<>>
    /\ popped = <<>>
    /\ invoked = [i \in Ids |-> <<>>]
    /\ returned = [i \in Ids |-> <<>>]
    /\ constructed = NothingConstructed

\* No loop holds control: every loop is suspended in an await (or was
\* never created, or its task has ended), so another coroutine may run.
Suspended ==
    \A l \in Loops : pc[l] \in {"idle", "sleeping", "step", "wait", "aborted"}

\* ---------------------------------------------------------------- storage
\* MemoryWorkflowStorage.get_workflow: warm first, then cold.
get_workflow(id) == id \in warm_storage \cup cold_storage

\* move_to_cold_storage that inserts into cold without deleting from warm.
move_to_cold_storage_keeps_warm(w, c, st, id) ==
    IF id \in w /\ st[id] \in terminal_states
    THEN [warm |-> w, cold |-> c \cup {id}]
    ELSE [warm |-> w, cold |-> c]

\* MemoryWorkflowStorage.move_to_cold_storage, on the tiers w, c with the
\* statuses st: the new tiers.
move_to_cold_storage(w, c, st, id) ==
    IF id \in w /\ st[id] \in terminal_states
    THEN [warm |-> w \ {id}, cold |-> c \cup {id}]
    ELSE [warm |-> w, cold |-> c]

\* cleanup_cold_storage removing every workflow of cold storage.
cleanup_cold_storage_all(c) == {}

\* MemoryWorkflowStorage.cleanup_cold_storage(before): the in-memory
\* storage tracks no timestamps and removes nothing (the body is pass).
cleanup_cold_storage(c) == c

\* MemoryWorkflowStorage.get_active_workflows
get_active_workflows == warm_storage

\* GET /workflows (list_workflows of the web API): one entry per id of
\* get_active_workflows() that get_workflow finds, and their count.
list_workflows ==
    LET listed == {id \in get_active_workflows : id \in warm_storage \cup cold_storage}
    IN  [total |-> Cardinality(listed), workflows |-> listed]

\* An iteration that never reaches the move-to-cold check.
MoveIfTerminalSkipped(w, c, st, id) == [warm |-> w, cold |-> c]

\* The tail of an iteration of _run_engine: if the status is terminal,
\* move the workflow to cold storage.
MoveIfTerminal(w, c, st, id) ==
    IF st[id] \in EngineTerminal
    THEN move_to_cold_storage(w, c, st, id)
    ELSE [warm |-> w, cold |-> c]

\* ------------------------------------------------------------- task queue
\* push that inserts at the head of the deque.
push_left(q, id, step, params) == <<Task(id, step, params)>> \o q

\* MemoryTaskQueue.push: append at the tail.
push(q, id, step, params) == Append(q, Task(id, step, params))

\* pop that returns the oldest task and leaves it in the deque.
pop_keeps_task(q) ==
    IF Len(q) = 0
    THEN [task |-> NoTask, queue |-> q]
    ELSE [task |-> Head(q), queue |-> q]

\* pop that takes the newest task (deque.pop instead of popleft).
pop_right(q) ==
    IF Len(q) = 0
    THEN [task |-> NoTask, queue |-> q]
    ELSE [task |-> q[Len(q)], queue |-> SubSeq(q, 1, Len(q) - 1)]

\* MemoryTaskQueue.pop: the oldest task and the rest of the queue, or no
\* task (None) and the queue as it was.
pop(q) ==
    IF Len(q) = 0
    THEN [task |-> NoTask, queue |-> q]
    ELSE [task |-> Head(q), queue |-> Tail(q)]

\* MemoryTaskQueue.is_empty
is_empty(q) == Len(q) = 0

\* ---------------------------------------------------------------- workflow
\* Workflow.set_error: store the error and set the status to FAILED.
set_error(st, er, id, e) ==
    [status |-> [st EXCEPT ![id] = FAILED], error |-> [er EXCEPT ![id] = e]]

\* Workflow.set_result
set_result(rs, id, v) == [rs EXCEPT ![id] = v]

\* set_current_step that stores nothing.
set_current_step_skipped(cs, id, step) == cs

\* Workflow.set_current_step
set_current_step(cs, id, step) == [cs EXCEPT ![id] = step]

\* ------------------------------------------------------ engine: callers
\* start_workflow creating a loop task at every call.
LoopNeededAlways(r) == TRUE

\* start_workflow with the test inverted ("if self._running").
LoopNeededInverted(r) == r

\* start_workflow: "if not self._running", the test that guards the
\* creation of the _run_engine task.
LoopNeeded(r) == ~r

\* Workflow.__init__ giving every instance the same id.
NewIdReused(n) == 1

\* Workflow.__init__: self.id = str(uuid.uuid4()), an id no earlier
\* workflow has; n workflows were constructed before.
NewId(n) == n + 1

\* start_workflow leaving the new workflow's status as constructed.
MarkRunningSkipped(st, id) == st

\* start_workflow: workflow.status = WorkflowStatus.RUNNING
MarkRunning(st, id) == [st EXCEPT ![id] = RUNNING]

\* The body of WorkflowEngine.start_workflow(workflow_class, **params),
\* called as operation op.
StartWorkflow(op, params) ==
    /\ created < MaxWorkflows
    /\ LoopNeeded(running) => engine_tasks < MaxLoops
    /\ LET id == NewId(created) IN
        /\ created' = created + 1
        /\ warm_storage' = warm_storage \cup {id}
        /\ status' = MarkRunning(status, id)
        /\ queue' = push(queue, id, "start", params)
        /\ pushed' = Append(pushed, Task(id, "start", params))
        /\ last' = Last(op, id, NoOutcome, status[id], "none", 0)
    /\ raised' = NoError
    /\ IF LoopNeeded(running)
       THEN /\ engine_tasks' = engine_tasks + 1
            /\ running' = TRUE
            /\ pc' = [pc EXCEPT ![engine_tasks + 1] = "sleeping"]
       ELSE UNCHANGED <<engine_tasks, running, pc>>
    /\ UNCHANGED <<result, error, current_step_name, cold_storage, cur, res,
                   dispatch_status, popped, invoked, returned, constructed>>

\* WorkflowEngine.start_workflow(workflow_class, **params)
start_workflow(params) ==
    /\ Suspended
    /\ call' = CallOf("none", params)
    /\ StartWorkflow("start_workflow", params)

\* The validation letting a declared default stand in for a required
\* parameter.
MissingRequiredUnlessDefault(params) ==
    {p \in DOMAIN parameters :
        parameters[p].required /\ ~parameters[p].has_default /\ p \notin params}

\* The required parameters of the metadata that params does not supply.
MissingRequired(params) ==
    {p \in DOMAIN parameters : parameters[p].required /\ p \notin params}

\* A call that raises e to its caller and changes nothing.
RaiseToCaller(op, e) ==
    /\ raised' = e
    /\ last' = Last(op, NoId, NoOutcome, "none", "none", 0)
    /\ UNCHANGED <<wfvars, created, warm_storage, cold_storage, queue, running,
                   engine_tasks, pc, cur, res, dispatch_status, pushed, popped,
                   invoked, returned, constructed>>

\* WorkflowEngine.start_workflow_by_name(workflow_name, **params)
start_workflow_by_name(name, params) ==
    /\ Suspended
    /\ call' = CallOf(name, params)
    /\ IF ~get_workflow_class(name)
       THEN RaiseToCaller("start_workflow_by_name", UnknownWorkflow)
       ELSE IF MissingRequired(params) # {}
       THEN RaiseToCaller("start_workflow_by_name",
                          MissingParameter(CHOOSE p \in MissingRequired(params) : TRUE))
       ELSE StartWorkflow("start_workflow_by_name", params)

\* stop_workflow without its test of the RUNNING status.
StopOneAnyStatus(st, er, w, c, id) ==
    IF id \in w \cup c
    THEN LET st1 == [st EXCEPT ![id] = FAILED]
             a == set_error(st1, er, id, WorkflowCancelled)
             t == move_to_cold_storage(w, c, a.status, id)
         IN  [status |-> a.status, error |-> a.error, warm |-> t.warm, cold |-> t.cold]
    ELSE [status |-> st, error |-> er, warm |-> w, cold |-> c]

\* stop_workflow without its call of move_to_cold_storage.
StopOneKeepsWarm(st, er, w, c, id) ==
    IF id \in w \cup c /\ st[id] = RUNNING
    THEN LET st1 == [st EXCEPT ![id] = FAILED]
             a == set_error(st1, er, id, WorkflowCancelled)
         IN  [status |-> a.status, error |-> a.error, warm |-> w, cold |-> c]
    ELSE [status |-> st, error |-> er, warm |-> w, cold |-> c]

\* The body of WorkflowEngine.stop_workflow on the statuses st, errors er
\* and tiers w, c: the new statuses, errors and tiers.
StopOne(st, er, w, c, id) ==
    IF id \in w \cup c /\ st[id] = RUNNING
    THEN LET st1 == [st EXCEPT ![id] = FAILED]
             a == set_error(st1, er, id, WorkflowCancelled)
             t == move_to_cold_storage(w, c, a.status, id)
         IN  [status |-> a.status, error |-> a.error, warm |-> t.warm, cold |-> t.cold]
    ELSE [status |-> st, error |-> er, warm |-> w, cold |-> c]

\* WorkflowEngine.stop_workflow(workflow_id)
stop_workflow(id) ==
    /\ Suspended
    /\ LET s == StopOne(status, error, warm_storage, cold_storage, id) IN
        /\ status' = s.status
        /\ error' = s.error
        /\ warm_storage' = s.warm
        /\ cold_storage' = s.cold
    /\ last' = Last("stop_workflow", id, NoOutcome, status[id], "none", 0)
    /\ raised' = NoError
    /\ call' = NoCall
    /\ UNCHANGED <<result, current_step_name, created, queue, running,
                   engine_tasks, pc, cur, res, dispatch_status, pushed, popped,
                   invoked, returned, constructed>>

\* stop_all_workflows iterating the live key view of warm storage: the
\* first stop deletes a key and the iteration ends there.
StopEachFirstOnly(s, ids) ==
    IF ids = {} THEN s
    ELSE LET id == CHOOSE i \in ids : TRUE
         IN  StopOne(s.status, s.error, s.warm, s.cold, id)

\* stop_workflow applied to every id of the set ids (in any order: the
\* calls touch different workflows).
RECURSIVE StopEach(_, _)
StopEach(s, ids) ==
    IF ids = {} THEN s
    ELSE LET id == CHOOSE i \in ids : TRUE
         IN  StopEach(StopOne(s.status, s.error, s.warm, s.cold, id), ids \ {id})

\* WorkflowEngine.stop_all_workflows()
stop_all_workflows ==
    /\ Suspended
    /\ LET s == StopEach([status |-> status, error |-> error,
                          warm |-> warm_storage, cold |-> cold_storage],
                         get_active_workflows) IN
        /\ status' = s.status
        /\ error' = s.error
        /\ warm_storage' = s.warm
        /\ cold_storage' = s.cold
    /\ last' = Last("stop_all_workflows", NoId, NoOutcome,
                  IF \E id \in get_active_workflows : status[id] = RUNNING
                  THEN RUNNING ELSE "none",
                  "none", 0)
    /\ raised' = NoError
    /\ call' = NoCall
    /\ UNCHANGED <<result, current_step_name, created, queue, running,
                   engine_tasks, pc, cur, res, dispatch_status, pushed, popped,
                   invoked, returned, constructed>>

\* WorkflowEngine.cleanup_old_workflows(before): the storage's
\* cleanup_cold_storage(before).
cleanup_old_workflows ==
    /\ Suspended
    /\ cold_storage' = cleanup_cold_storage(cold_storage)
    /\ last' = Last("cleanup_old_workflows", NoId, NoOutcome, "none", "none", 0)
    /\ raised' = NoError
    /\ call' = NoCall
    /\ UNCHANGED <<wfvars, created, warm_storage, queue, running, engine_tasks,
                   pc, cur, res, dispatch_status, pushed, popped, invoked,
                   returned, constructed>>

\* ------------------------------------------------- engine: dispatch loop
\* wait_for around the step body taking its timeout from the transition
\* that scheduled the step.
StepDeadlineOfTransition(task) == CustomTimeout

\* The timeout of the wait_for around the step body of a task.
StepDeadline(task) == DEFAULT_STEP_TIMEOUT

\* A BaseException leaves the try block of loop l uncaught: the
\* _run_engine task ends, _running stays as it is.
Abort(l) ==
    /\ pc' = [pc EXCEPT ![l] = "aborted"]
    /\ cur' = [cur EXCEPT ![l] = NoTask]
    /\ res' = [res EXCEPT ![l] = NoOutcome]
    /\ dispatch_status' = [dispatch_status EXCEPT ![l] = "none"]
    /\ UNCHANGED <<status, result, error, warm_storage, cold_storage, queue,
                   pushed>>

\* The end of one iteration of _run_engine in loop l: the workflow fields
\* and the queue as the iteration left them, new the tasks it pushed;
\* check says whether the iteration reaches the move-to-cold check at its
\* end (a continue inside the try block does not); the loop goes back to
\* its top without suspending.
EndIteration(l, st, er, rs, q, new, id, check) ==
    /\ status' = st
    /\ error' = er
    /\ result' = rs
    /\ queue' = q
    /\ pushed' = pushed \o new
    /\ LET t == IF check
                THEN MoveIfTerminal(warm_storage, cold_storage, st, id)
                ELSE [warm |-> warm_storage, cold |-> cold_storage] IN
        /\ warm_storage' = t.warm
        /\ cold_storage' = t.cold
    /\ pc' = [pc EXCEPT ![l] = "top"]
    /\ cur' = [cur EXCEPT ![l] = NoTask]
    /\ res' = [res EXCEPT ![l] = NoOutcome]
    /\ dispatch_status' = [dispatch_status EXCEPT ![l] = "none"]

\* The timeout handler without its assignment of TIMEOUT after set_error.
OnTimeoutKeepsFailed(st, er, id, step) ==
    set_error(st, er, id, StepTimeoutError(step))

\* except asyncio.TimeoutError: the step-timeout error, then status TIMEOUT.
OnTimeout(st, er, id, step) ==
    LET a == set_error(st, er, id, StepTimeoutError(step))
    IN  [status |-> [a.status EXCEPT ![id] = TIMEOUT], error |-> a.error]

\* The exception handler attaching a wrapping WorkflowError instead of e.
OnExceptionWrapsError(st, er, id, e) ==
    LET a == set_error(st, er, id, [kind |-> "WorkflowError", arg |-> e.arg])
    IN  [status |-> [a.status EXCEPT ![id] = FAILED], error |-> a.error]

\* except Exception as e: the failure as the error, then status FAILED.
OnException(st, er, id, e) ==
    LET a == set_error(st, er, id, e)
    IN  [status |-> [a.status EXCEPT ![id] = FAILED], error |-> a.error]

\* The result is not a StepTransition: an invalid-transition error, then
\* status FAILED.
OnInvalidTransition(st, er, id) ==
    LET a == set_error(st, er, id, InvalidTransition)
    IN  [status |-> [a.status EXCEPT ![id] = FAILED], error |-> a.error]

\* "if not workflow" ending the loop instead of dropping the task.
DropTaskAborts(l, q) ==
    /\ queue' = q
    /\ pc' = [pc EXCEPT ![l] = "aborted"]
    /\ UNCHANGED <<wfvars, warm_storage, cold_storage, cur, res,
                   dispatch_status, pushed, invoked>>

\* "if not workflow: continue": the popped task is dropped (q is the
\* queue without it) and loop l goes back to its top.
DropTask(l, q) ==
    /\ queue' = q
    /\ pc' = [pc EXCEPT ![l] = "top"]
    /\ UNCHANGED <<wfvars, warm_storage, cold_storage, cur, res,
                   dispatch_status, pushed, invoked>>

\* The top of loop l: pop a task; on an empty queue sleep 0.1 s; drop the
\* task of an unknown workflow; look the step method up by name, set
\* current_step_name and start awaiting the step body.
Pop(l) ==
    /\ pc[l] = "top" \/ (pc[l] = "sleeping" /\ Suspended)
    /\ running
    /\ raised' = NoError
    /\ call' = NoCall
    /\ LET r == pop(queue)
           task == r.task
           id == task.id
       IN
       IF task = NoTask
       THEN /\ pc' = [pc EXCEPT ![l] = "sleeping"]
            /\ last' = Last("pop", NoId, NoOutcome, "none", "none", 0)
            /\ UNCHANGED <<wfvars, warm_storage, cold_storage, queue, cur, res,
                           dispatch_status, pushed, popped, invoked>>
       ELSE /\ last' = Last("pop", id, NoOutcome,
                             IF get_workflow(id) THEN status[id] ELSE "none",
                             "none", 0)
            /\ popped' = Append(popped, task)
            /\ IF ~get_workflow(id)
               THEN DropTask(l, r.queue)
               ELSE IF task.step \notin Methods
               THEN LET h == OnException(status, error, id, AttributeError(task.step))
                    IN  /\ EndIteration(l, h.status, h.error, result, r.queue,
                                        <<>>, id, TRUE)
                        /\ UNCHANGED <<current_step_name, invoked>>
               ELSE /\ Len(invoked[id]) < MaxDispatches
                    /\ current_step_name' = set_current_step(current_step_name, id, task.step)
                    /\ invoked' = [invoked EXCEPT ![id] = Append(@, task.step)]
                    /\ queue' = r.queue
                    /\ pc' = [pc EXCEPT ![l] = "step"]
                    /\ cur' = [cur EXCEPT ![l] = task]
                    /\ dispatch_status' = [dispatch_status EXCEPT ![l] = status[id]]
                    /\ UNCHANGED <<status, result, error, warm_storage,
                                   cold_storage, res, pushed>>
    /\ UNCHANGED <<created, running, engine_tasks, returned, constructed>>

\* The awaited step body of loop l is over with outcome out: the rest of
\* the try block, its handlers and the move-to-cold check.
AfterStep(l, out) ==
    LET id == cur[l].id IN
    IF out.kind = "timeout"
    THEN LET h == OnTimeout(status, error, id, cur[l].step)
         IN  EndIteration(l, h.status, h.error, result, queue, <<>>, id, TRUE)
    ELSE IF out.kind = "raise"
    THEN LET h == OnException(status, error, id, StepException(out.exc))
         IN  EndIteration(l, h.status, h.error, result, queue, <<>>, id, TRUE)
    ELSE IF out.kind = "cancel"
    THEN Abort(l)
    ELSE IF out.type = "NOT_A_TRANSITION"
    THEN LET h == OnInvalidTransition(status, error, id)
         IN  EndIteration(l, h.status, h.error, result, queue, <<>>, id, FALSE)
    ELSE IF "END" \notin TransitionType
    \* match: the first case pattern, TransitionType.END, is looked up
    THEN LET h == OnException(status, error, id, AttributeError("END"))
         IN  EndIteration(l, h.status, h.error, result, queue, <<>>, id, TRUE)
    ELSE IF out.type = "END"
    THEN EndIteration(l, [status EXCEPT ![id] = COMPLETED], error,
                      set_result(result, id, out.result), queue, <<>>, id, FALSE)
    ELSE IF out.type = "WAIT" \/ (out.type = "SCHEDULE" /\ out.sleep # "none")
    THEN /\ pc' = [pc EXCEPT ![l] = "wait"]
         /\ res' = [res EXCEPT ![l] = out]
         /\ UNCHANGED <<status, result, error, warm_storage, cold_storage, queue,
                     cur, dispatch_status, pushed>>
    ELSE IF out.type = "BASE"
    \* no case matches; result.next_step does not exist
    THEN LET h == OnException(status, error, id, AttributeError("next_step"))
         IN  EndIteration(l, h.status, h.error, result, queue, <<>>, id, TRUE)
    ELSE EndIteration(l, status, error, result,
                      push(queue, id, out.next_step, out.params),
                      <<Task(id, out.next_step, out.params)>>, id, TRUE)

\* The awaited WAIT / SCHEDULE sleep of loop l is over: the successor is
\* pushed, or the sleep exceeded the transition's timeout and a
\* StepTimeoutError is raised inside the try block.
AfterSleep(l) ==
    LET id == cur[l].id IN
    IF res[l].sleep = "long"
    THEN LET h == OnException(status, error, id, SleepTimeoutError)
         IN  EndIteration(l, h.status, h.error, result, queue, <<>>, id, TRUE)
    ELSE EndIteration(l, status, error, result,
                      push(queue, id, res[l].next_step, res[l].params),
                      <<Task(id, res[l].next_step, res[l].params)>>, id, TRUE)

\* What wait_for hands back for a step body that would do body after
\* running d seconds: a body still running at the deadline is cancelled
\* and asyncio.TimeoutError is raised.
WaitFor(task, body, d) == IF d > StepDeadline(task) THEN TimesOut ELSE body

\* Loop l resumes from the await it is suspended in; body is what the
\* step body does after running d seconds.
Resume(l, body, d) ==
    /\ pc[l] \in {"step", "wait"}
    /\ Suspended
    /\ raised' = NoError
    /\ call' = NoCall
    /\ IF pc[l] = "step"
       THEN LET out == WaitFor(cur[l], body, d) IN
            /\ last' = Last("resume", cur[l].id, out, status[cur[l].id],
                            dispatch_status[l], d)
            /\ returned' =
                  IF out.type \in {"NEXT", "WAIT", "SCHEDULE"}
                  THEN [returned EXCEPT ![cur[l].id] = Append(@, out.next_step)]
                  ELSE returned
            /\ AfterStep(l, out)
       ELSE /\ last' = Last("resume", cur[l].id, res[l], status[cur[l].id],
                            dispatch_status[l], 0)
            /\ UNCHANGED returned
            /\ AfterSleep(l)
    /\ UNCHANGED <<current_step_name, created, running, engine_tasks, popped,
                   invoked, constructed>>

Next ==
    \/ \E p \in Params : start_workflow(p)
    \/ \E name \in WorkflowNames, p \in Params : start_workflow_by_name(name, p)
    \/ \E id \in Ids : stop_workflow(id)
    \/ stop_all_workflows
    \/ cleanup_old_workflows
    \/ \E l \in Loops : Pop(l)
    \/ \E l \in Loops, body \in Outcomes, d \in Durations : Resume(l, body, d)

Spec == Init /\ [][Next]_vars

\* The dispatch loops under weak fairness: a loop that can take its next
\* step (its 0.1 s sleep, its step body or its WAIT / SCHEDULE sleep is
\* over) takes it.
FairSpec ==
    /\ Spec
    /\ WF_vars(\E l \in Loops : Pop(l))
    /\ WF_vars(\E l \in Loops, body \in Outcomes, d \in Durations : Resume(l, body, d))

\* ------------------------------------------------- an injected task queue
\* How many of the tasks pushed so far the queue's owner pushed.
ExternalPushes == Cardinality({k \in 1..Len(pushed) : pushed[k] \in ExternalTasks})

\* The owner of the queue given to WorkflowEngine(task_queue = q) calls
\* q.push(id, step, params) while no loop holds control.
ExternalPush(task) ==
    /\ Suspended
    /\ ExternalPushes < MaxExternalPushes
    /\ task.id = GhostId \/ task.id \in 1..created
    /\ queue' = push(queue, task.id, task.step, task.params)
    /\ pushed' = Append(pushed, task)
    /\ last' = Last("push", NoId, NoOutcome, "none", "none", 0)
    /\ raised' = NoError
    /\ call' = NoCall
    /\ UNCHANGED <<wfvars, created, warm_storage, cold_storage, running,
                   engine_tasks, pc, cur, res, dispatch_status, popped, invoked,
                   returned, constructed>>

NextOfInjectedQueue ==
    \/ Next
    \/ \E task \in ExternalTasks : ExternalPush(task)

SpecOfInjectedQueue == Init /\ [][NextOfInjectedQueue]_vars

\* ------------------------------------------- the transition constructors
\* cls(..., timeout = arg) is called: the engine is not involved.
Construct(cls, arg) ==
    /\ constructed' = Constructed(cls, arg, StepTransitionInit(arg))
    /\ UNCHANGED <<wfvars, created, warm_storage, cold_storage, queue, running,
                   engine_tasks, pc, cur, res, dispatch_status, last, raised,
                   call, pushed, popped, invoked, returned>>

NextOfTransitions == \E cls \in TransitionClasses, arg \in TimeoutArgs : Construct(cls, arg)

SpecOfTransitions == Init /\ [][NextOfTransitions]_vars

\* ================================================================ claims
\* The number of tasks of workflow id in the queue q.
TasksOf(q, id) == Cardinality({k \in 1..Len(q) : q[k].id = id})

\* This step of the behaviour is loop l resuming from a step body.
StepBodyEnds(l) == pc[l] = "step" /\ pc'[l] # "step"

\* This step of the behaviour is a loop popping a task.
PopsTask == Len(popped') = Len(popped) + 1

\* Workflow id has a step in flight: invoked, and its transition handling
\* (the WAIT / SCHEDULE sleep included) not over.
InFlight(id) == \E l \in Loops : pc[l] \in {"step", "wait"} /\ cur[l].id = id

\* C1: once a workflow's status is Completed, Failed or Timeout, no step
\* of the engine changes it to a different value.
C1_TerminalStatusPermanent ==
    [][\A id \in Ids :
          status[id] \in EngineTerminal => status'[id] = status[id]]_vars

C3_TerminalTaskDropped ==
    [][(PopsTask /\ status[Head(queue).id] \in EngineTerminal)
          => /\ \A l \in Loops : pc'[l] = "step" => pc[l] = "step"
             /\ current_step_name' = current_step_name
             /\ status' = status
             /\ error' = error]_vars

\* C4: a step of a Running workflow returning End(v) leaves the workflow
\* Completed with result v, pushes nothing, and the workflow is in cold
\* storage and not in warm storage when the iteration is over.
C4_EndCompletes ==
    [][\A l \in Loops : (StepBodyEnds(l) /\ last'.out.type = "END" /\ status[cur[l].id] = RUNNING)
          => /\ status'[cur[l].id] = COMPLETED
             /\ result'[cur[l].id] = last'.out.result
             /\ queue' = queue
             /\ cur[l].id \in cold_storage'
             /\ cur[l].id \notin warm_storage']_vars

\* C5: no workflow id is in both warm and cold storage.
C5_TiersDisjoint == warm_storage \cap cold_storage = {}

\* C5 witness: both tiers hold a workflow, one moved there by the loop
\* and one by stop_workflow or still active.
C5_Witness ==
    /\ warm_storage # {}
    /\ cold_storage # {}
    /\ \E id \in cold_storage : status[id] = FAILED

\* C6: at the top of an iteration no workflow in warm storage has a
\* terminal status.
C6_NoTerminalInWarm ==
    (\E l \in Loops : pc[l] \in {"top", "sleeping"})
        => \A id \in warm_storage : status[id] \notin EngineTerminal

\* C7: a step body that exceeds the step timeout leaves the workflow with
\* status Timeout and a step-timeout error naming the step, for good: no
\* task of the workflow is pushed and none is dispatched afterwards.
C7_StepTimeout ==
    /\ (last.op = "resume" /\ last.out.kind = "timeout")
          => error[last.id] = StepTimeoutError(current_step_name[last.id])
    /\ \A id \in Ids :
          (error[id].kind = "StepTimeoutError" /\ error[id].arg \in Methods)
              => /\ status[id] = TIMEOUT
                 /\ TasksOf(queue, id) = 0
                 /\ ~InFlight(id)

\* C7 witness: a step body timed out and the loop went on to another
\* workflow afterwards.
C7_Witness ==
    \E id \in Ids :
        /\ error[id] = StepTimeoutError("start")
        /\ status[id] = TIMEOUT
        /\ last.op = "resume"
        /\ last.id # id

C9_InvalidTransition ==
    [][\A l \in Loops : (StepBodyEnds(l) /\ last'.out.type = "NOT_A_TRANSITION")
          => /\ status'[cur[l].id] = FAILED
             /\ error'[cur[l].id] = InvalidTransition
             /\ queue' = queue
             /\ cur[l].id \in cold_storage'
             /\ cur[l].id \notin warm_storage']_vars

\* C10: a step of a Running workflow returning Next(step, params) appends
\* exactly the task (id, step name, params) to the queue; the status stays
\* Running, the error unset and the workflow in warm storage.
C10_NextEnqueues ==
    [][\A l \in Loops : (StepBodyEnds(l) /\ last'.out.type = "NEXT" /\ status[cur[l].id] = RUNNING)
          => /\ queue' = Append(queue, Task(cur[l].id, last'.out.next_step, last'.out.params))
             /\ status'[cur[l].id] = RUNNING
             /\ error'[cur[l].id] = NoError
             /\ cur[l].id \in warm_storage']_vars

\* The first n elements of the sequence a are those of the sequence b.
AgreeUpTo(a, b, n) == \A k \in 1..n : a[k] = b[k]

\* C11: the steps the engine invokes for a workflow are "start" followed
\* by the successors its steps returned, in that order; once the workflow
\* has nothing queued and nothing in flight (and was not cancelled), none
\* of the returned successors has been skipped.
C11_Linearity ==
    \A id \in Ids :
        LET expected == <<"start">> \o returned[id] IN
        /\ Len(invoked[id]) <= Len(expected)
        /\ AgreeUpTo(invoked[id], expected, Len(invoked[id]))
        /\ ( /\ invoked[id] # <<>>
             /\ ~InFlight(id)
             /\ TasksOf(queue, id) = 0
             /\ error[id] # WorkflowCancelled
             /\ \A k \in 1..Len(returned[id]) : returned[id][k] \in Methods )
              => invoked[id] = expected

\* C12: while a step body is executing, current_step_name of its workflow
\* is the name of that step; it is null before the workflow's first
\* dispatch, and only the dispatch loop's pop-and-invoke writes it.
C12_CurrentStepName ==
    [][/\ \A l \in Loops :
             pc'[l] = "step" => current_step_name'[cur'[l].id] = cur'[l].step
       /\ \A id \in Ids :
             invoked'[id] = <<>> => current_step_name'[id] = "None"
       /\ current_step_name' # current_step_name => last'.op = "pop"]_vars

\* C12 witness: a step of one workflow is executing under its name while
\* another started workflow has not been dispatched yet.
C12_Witness ==
    \E l \in Loops, id \in Ids :
        /\ pc[l] = "step"
        /\ current_step_name[cur[l].id] = "start"
        /\ status[id] = RUNNING
        /\ invoked[id] = <<>>
        /\ current_step_name[id] = "None"

\* C13: when stop_workflow(id) returns for a workflow that was Running,
\* the workflow is Failed with the error "Workflow cancelled", in cold
\* storage, not in warm storage, and get_workflow(id) still finds it.
C13_StopRunning ==
    (last.op = "stop_workflow" /\ last.pre = RUNNING)
        => /\ status[last.id] = FAILED
           /\ error[last.id] = WorkflowCancelled
           /\ last.id \in cold_storage
           /\ last.id \notin warm_storage
           /\ last.id \notin get_active_workflows
           /\ get_workflow(last.id)

\* C13 witness: a Running workflow was stopped while its step was in
\* flight.
C13_Witness ==
    /\ last.op = "stop_workflow"
    /\ last.pre = RUNNING
    /\ InFlight(last.id)
    /\ last.id \in cold_storage

\* C14: stop_workflow(id) changes nothing when id is unknown or the
\* workflow is not Running; a second call right after a first leaves the
\* workflow Failed with the cancelled error.
C14_StopNoOp ==
    [][\A id \in Ids :
          (last'.op = "stop_workflow" /\ last'.id = id)
              => /\ (~get_workflow(id) \/ status[id] # RUNNING)
                    => UNCHANGED <<status, error, result, warm_storage,
                                   cold_storage, queue>>
                 /\ (last.op = "stop_workflow" /\ last.id = id /\ last.pre = RUNNING)
                    => (status'[id] = FAILED /\ error'[id] = WorkflowCancelled)]_vars

\* C14 witness: stop_workflow was called on a workflow that an earlier
\* stop_workflow had already cancelled.
C14_Witness ==
    /\ last.op = "stop_workflow"
    /\ last.pre = FAILED
    /\ status[last.id] = FAILED
    /\ error[last.id] = WorkflowCancelled

\* What a successful start leaves: id was in no tier and is now in warm
\* storage with status Running, the task (id, "start", p) is the new tail
\* of the queue, a loop exists and the running flag is set; the tasks
\* already queued, the other workflows and cold storage are as before.
StartPost(id, p) ==
    /\ id \notin warm_storage \cup cold_storage
    /\ warm_storage' = warm_storage \cup {id}
    /\ cold_storage' = cold_storage
    /\ status'[id] = RUNNING
    /\ queue' = Append(queue, Task(id, "start", p))
    /\ running'
    /\ \E l \in Loops : pc'[l] # "idle"
    /\ \A j \in Ids \ {id} : status'[j] = status[j]
    /\ UNCHANGED <<error, result, current_step_name>>

NothingStarted ==
    UNCHANGED <<wfvars, created, warm_storage, cold_storage, queue, running,
                engine_tasks, pc>>

\* C16: start_workflow_by_name with an unregistered name raises the
\* unknown-workflow error; no workflow is stored, no task pushed and no
\* loop started.
C16_UnknownWorkflow ==
    [][(last'.op = "start_workflow_by_name" /\ call'.name \notin Registered)
          => (raised' = UnknownWorkflow /\ NothingStarted)]_vars

\* C16 witness: an unregistered name was refused before any workflow was
\* started, and no loop exists.
C16_Witness ==
    /\ last.op = "start_workflow_by_name"
    /\ call.name = "unregistered"
    /\ raised = UnknownWorkflow
    /\ engine_tasks = 0
    /\ ~running

\* C17: for a registered workflow, start_workflow_by_name raises the
\* missing-parameter error naming a parameter exactly when a parameter
\* declared required is not supplied, whatever its default, and then
\* changes nothing; otherwise it starts the workflow as start_workflow
\* does.
C17_RequiredParameters ==
    [][(last'.op = "start_workflow_by_name" /\ call'.name \in Registered)
          => LET missing == {p \in ParamNames :
                                parameters[p].required /\ p \notin call'.params}
             IN  IF missing # {}
                 THEN /\ raised' \in {MissingParameter(p) : p \in missing}
                      /\ NothingStarted
                 ELSE /\ raised' = NoError
                      /\ StartPost(last'.id, call'.params)]_vars

\* C17 witness: the call supplied only the optional parameter and was
\* refused for the required one, which has a default.
C17_Witness ==
    /\ last.op = "start_workflow_by_name"
    /\ call = CallOf("w", {"note"})
    /\ parameters["account_id"].has_default
    /\ raised = MissingParameter("account_id")

\* The number of loops that have a step of workflow id in flight.
InFlightCount(id) ==
    Cardinality({l \in Loops : pc[l] \in {"step", "wait"} /\ cur[l].id = id})

\* C18: for every workflow, the tasks queued for it plus its steps in
\* flight number at most one.
C18_OneTaskPerWorkflow ==
    \A id \in Ids : TasksOf(queue, id) + InFlightCount(id) <= 1

\* C18 witness: one workflow has its step in flight and no task queued
\* while another has its task queued.
C18_Witness ==
    \E id, other \in Ids :
        /\ InFlightCount(id) = 1
        /\ TasksOf(queue, id) = 0
        /\ TasksOf(queue, other) = 1

\* C19: the tasks popped so far, followed by the tasks in the queue, are
\* the tasks pushed so far in push order: pop takes the oldest task, and
\* on an empty queue takes nothing.
C19_GlobalFifo == pushed = popped \o queue

\* C19 witness: two workflows' tasks were popped in the order they were
\* pushed, the second one pushed by a start_workflow call.
C19_Witness ==
    /\ Len(popped) = 2
    /\ popped[1].id = 1
    /\ popped[2].id = 2
    /\ \E l \in Loops : pc[l] = "step" /\ cur[l].id = 2

\* C20: at most one step dispatch is between its invocation and the end
\* of its transition handling.
C20_OneStepAtATime ==
    Cardinality({l \in Loops : pc[l] \in {"step", "wait"}}) <= 1

\* C20 witness: start_workflow was called a second time while the loop
\* was executing a step.
C20_Witness ==
    /\ last.op = "start_workflow"
    /\ created = 2
    /\ engine_tasks = 1
    /\ \E l \in Loops : pc[l] = "step"

\* Loop l ends an iteration in this step: the handling of what the step
\* body did (its WAIT / SCHEDULE sleep included) is over.
IterationEnds(l) == pc[l] \in {"step", "wait"} /\ pc'[l] = "top"

\* C21: a workflow's error is assigned at most once, when its status
\* becomes Failed or Timeout: an error once set is never replaced (the one
\* stop_workflow recorded included), and the error is set exactly when
\* the status is Failed or Timeout.
C21_ErrorSetOnce ==
    /\ [](\A id \in Ids : error[id] # NoError <=> status[id] \in {FAILED, TIMEOUT})
    /\ [][\A id \in Ids : error[id] # NoError => error'[id] = error[id]]_vars

\* C22: when the sleep of a WaitAndNext or Schedule transition exceeds the
\* transition's timeout, the workflow ends with status Timeout and a
\* step-timeout error, and no successor task is pushed.
C22_SleepTimeout ==
    [][\A l \in Loops :
          (IterationEnds(l) /\ last'.out.type \in {"WAIT", "SCHEDULE"}
                            /\ last'.out.sleep = "long")
              => /\ status'[cur[l].id] = TIMEOUT
                 /\ error'[cur[l].id].kind = "StepTimeoutError"
                 /\ pushed' = pushed]_vars

\* C23: when a step of a Running workflow returns WaitAndNext with a wait
\* within the transition's timeout, the successor task (id, step name,
\* params) is pushed once, at the end of the sleep and not before.
C23_WaitThenPush ==
    [][\A l \in Loops :
          (IterationEnds(l) /\ last'.out.type = "WAIT" /\ last'.out.sleep = "short"
                            /\ status[cur[l].id] = RUNNING)
              => /\ pc[l] = "wait"
                 /\ pushed' = Append(pushed, Task(cur[l].id, last'.out.next_step,
                                                  last'.out.params))]_vars

\* C24: a Schedule transition whose schedule_time is not after now is a
\* wait of zero: the successor task is pushed in the same iteration with
\* no sleep, and no error is recorded on the workflow.
C24_PastScheduleIsImmediate ==
    [][\A l \in Loops :
          (StepBodyEnds(l) /\ last'.out.type = "SCHEDULE" /\ last'.out.sleep = "none"
                           /\ status[cur[l].id] = RUNNING)
              => /\ pc'[l] = "top"
                 /\ pushed' = Append(pushed, Task(cur[l].id, last'.out.next_step,
                                                  last'.out.params))
                 /\ error'[cur[l].id] = NoError
                 /\ status'[cur[l].id] = RUNNING]_vars

\* C25: constructing a transition with a timeout above MAX_STEP_TIMEOUT
\* raises the ValueError and makes no object; a timeout of exactly
\* MAX_STEP_TIMEOUT is accepted and stored, and a timeout that is not
\* given yields DEFAULT_STEP_TIMEOUT.
C25_TimeoutLimit ==
    constructed.class # "none"
        => /\ (constructed.arg.given /\ constructed.arg.value > MAX_STEP_TIMEOUT)
                 => constructed.raised = TimeoutTooLarge
           /\ constructed.arg = TimeoutOf(MAX_STEP_TIMEOUT)
                 => (constructed.raised = NoError
                        /\ constructed.timeout = MAX_STEP_TIMEOUT)
           /\ ~constructed.arg.given
                 => (constructed.raised = NoError
                        /\ constructed.timeout = DEFAULT_STEP_TIMEOUT)

\* C25 witness: a Schedule was constructed with a timeout one second
\* above the maximum and the constructor raised.
C25_Witness ==
    /\ constructed.class = "Schedule"
    /\ constructed.arg = TimeoutOf(MAX_STEP_TIMEOUT + 1)
    /\ constructed.raised = TimeoutTooLarge

\* C26: every transition that was constructed carries a timeout t with
\* 0 < t <= MAX_STEP_TIMEOUT: a zero or negative argument is not stored,
\* and a positive argument up to the maximum is stored as given.
C26_EffectiveTimeout ==
    (constructed.class # "none" /\ constructed.raised = NoError)
        => /\ 0 < constructed.timeout
           /\ constructed.timeout <= MAX_STEP_TIMEOUT
           /\ (constructed.arg.given /\ constructed.arg.value <= 0)
                 => constructed.timeout # constructed.arg.value
           /\ (constructed.arg.given /\ 0 < constructed.arg.value
                                     /\ constructed.arg.value <= MAX_STEP_TIMEOUT)
                 => constructed.timeout = constructed.arg.value

C28_LoopNeverAborts == \A l \in Loops : pc[l] # "aborted"

\* This step calls move_to_cold_storage(id): stop_workflow on a Running
\* workflow, or the end of an iteration whose step body timed out or
\* raised.
MoveToColdCalled(id) ==
    \/ last'.op = "stop_workflow" /\ last'.id = id /\ status[id] = RUNNING
    \/ /\ \E l \in Loops : IterationEnds(l) /\ cur[l].id = id
       /\ last'.out.kind \in {"timeout", "raise"}

\* C29: move_to_cold_storage(id) moves a workflow of warm storage whose
\* status is Completed, Failed or Timeout to cold storage, and changes
\* neither tier when the id is not in warm storage.
C29_MoveToCold ==
    [][\A id \in Ids :
          MoveToColdCalled(id)
              => IF id \in warm_storage
                 THEN status'[id] \in EngineTerminal
                         => (id \in cold_storage' /\ id \notin warm_storage')
                 ELSE UNCHANGED <<warm_storage, cold_storage>>]_vars

\* C30: a workflow id that is in cold storage is never in warm storage
\* again.
C30_ColdNeverWarm ==
    [][\A id \in Ids : id \in cold_storage => id \notin warm_storage']_vars

\* C30 witness: with a workflow in cold storage, another workflow was
\* started, and cleanup_old_workflows ran.
C30_Witness ==
    /\ last.op = "cleanup_old_workflows"
    /\ \E id \in cold_storage : \E other \in warm_storage : other > id

\* C31: stop_all_workflows leaves every workflow that was in warm storage
\* with status Running Failed with the cancelled error, in cold storage
\* and not in warm storage, and leaves every other workflow as it was.
C31_StopAll ==
    [][last'.op = "stop_all_workflows"
          => \A id \in Ids :
                IF id \in warm_storage /\ status[id] = RUNNING
                THEN /\ status'[id] = FAILED
                     /\ error'[id] = WorkflowCancelled
                     /\ id \in cold_storage'
                     /\ id \notin warm_storage'
                ELSE /\ status'[id] = status[id]
                     /\ error'[id] = error[id]
                     /\ result'[id] = result[id]
                     /\ (id \in warm_storage') = (id \in warm_storage)
                     /\ (id \in cold_storage') = (id \in cold_storage)]_vars

\* C31 witness: stop_all_workflows was called with a Running workflow and
\* a workflow that was already terminal in warm storage.
C31_Witness ==
    /\ last.op = "stop_all_workflows"
    /\ last.pre = RUNNING
    /\ \E id \in cold_storage : error[id] = WorkflowCancelled
    /\ \E id \in warm_storage : status[id] \in EngineTerminal

C33_LeavesActiveSet ==
    \A id \in Ids :
        (id \in get_active_workflows)
            ~> (id \notin get_active_workflows \/ status[id] = TIMEOUT)

\* C34: the listing of GET /workflows holds every workflow of warm and of
\* cold storage, and its total is their number.
C34_ListingComplete ==
    /\ list_workflows.workflows = warm_storage \cup cold_storage
    /\ list_workflows.total = Cardinality(warm_storage \cup cold_storage)

\* C35: a popped task whose workflow id is in neither tier is dropped: no
\* step is invoked, nothing is pushed, no workflow field changes and the
\* loop is back at its top for the next task.
C35_UnknownTaskDropped ==
    [][(PopsTask /\ ~get_workflow(Head(queue).id))
          => /\ queue' = Tail(queue)
             /\ invoked' = invoked
             /\ pushed' = pushed
             /\ UNCHANGED <<status, error, result, current_step_name>>
             /\ \E l \in Loops : pc[l] \in {"top", "sleeping"} /\ pc'[l] = "top"
             /\ \A l \in Loops : pc'[l] \in {pc[l], "top"}]_vars

\* C35 witness: the task of an unknown workflow was popped and the loop
\* went on to invoke the step of a later task.
C35_Witness ==
    /\ \E k \in 1..Len(popped) : popped[k].id = GhostId /\ k < Len(popped)
    /\ \E l \in Loops : pc[l] = "step"

\* C36: every workflow that was started is in exactly one of warm and
\* cold storage.
C36_NoWorkflowLost ==
    \A id \in 1..created : (id \in warm_storage) # (id \in cold_storage)

\* C36 witness: cleanup_old_workflows ran with every started workflow in
\* cold storage.
C36_Witness ==
    /\ last.op = "cleanup_old_workflows"
    /\ created >= 1
    /\ cold_storage = 1..created

\* C37: every Running workflow has exactly one task in the queue or a
\* step in flight.
C37_NoOrphan ==
    \A id \in Ids :
        status[id] = RUNNING => TasksOf(queue, id) + InFlightCount(id) = 1

\* C38: at most one dispatch-loop task is ever created, by the first
\* start_workflow call, and the running flag is true from that call on.
C38_OneLoop ==
    /\ engine_tasks <= 1
    /\ created >= 1 => (running /\ engine_tasks = 1)

\* C38 witness: two workflows were started before the loop first ran.
C38_Witness ==
    /\ created = 2
    /\ popped = <<>>
    /\ engine_tasks = 1
    /\ running

\* C39: under fair dispatch loops every pushed task is eventually popped.
C39_PushedEventuallyPopped ==
    \A n \in 1..MaxWorkflows : (Len(pushed) >= n) ~> (Len(popped) >= n)

\* C40: a popped task naming a step the workflow does not have invokes no
\* step body and leaves current_step_name alone; the workflow becomes
\* Failed with the lookup failure as its error, nothing is pushed and the
\* workflow is in cold storage, not in warm storage.
C40_UnknownStep ==
    [][(PopsTask /\ get_workflow(Head(queue).id) /\ Head(queue).step \notin Methods)
          => /\ invoked' = invoked
             /\ current_step_name' = current_step_name
             /\ \A l \in Loops : pc'[l] \notin {"step", "wait"} \/ pc'[l] = pc[l]
             /\ status'[Head(queue).id] = FAILED
             /\ error'[Head(queue).id] = AttributeError(Head(queue).step)
             /\ pushed' = pushed
             /\ Head(queue).id \in cold_storage'
             /\ Head(queue).id \notin warm_storage']_vars

\* C40 witness: a task naming a missing step was popped for a workflow
\* that was in warm storage with status Timeout, which is now Failed in
\* cold storage.
C40_Witness ==
    /\ last.op = "pop"
    /\ last.pre = TIMEOUT
    /\ error[last.id] = AttributeError("not_a_method")
    /\ status[last.id] = FAILED
    /\ last.id \in cold_storage

====
